---- MODULE Spec2Model ----
(***************************************************************************)
(* A model of simple_server.py: SPAHandler.do_GET, the routing decision of *)
(* a single-page-application file server, together with the inherited      *)
(* static-file delegate (SimpleHTTPRequestHandler) it hands the request to *)
(* and the TCPServer loop that runs it.                                    *)
(*                                                                         *)
(* Strings are sequences of one-character strings, so that startswith,     *)
(* endswith, find and split are computed character by character as the     *)
(* Python code computes them.                                              *)
(***************************************************************************)
EXTENDS Naturals, Sequences, FiniteSets, TLC

VARIABLES
    fs,             \* the document root: the set of regular files below the working directory
    pc,             \* "idle" | "received" | "done": where the server loop is
    request,        \* the request target of the request line, as sent
    selfPath,       \* the handler's self.path
    path,           \* do_GET's local variable path
    existsCalls,    \* calls of os.path.exists made by do_GET for this request
    raised,         \* whether an exception left do_GET
    response,       \* what the client got
    prevRewritten   \* history: whether the previous request had its self.path rewritten

vars == <<fs, pc, request, selfPath, path, existsCalls, raised, response,
          prevRewritten>>

----------------------------------------------------------------------------
(* Bounds of the model *)

\* the longest request target, in tokens of RequestTokens
MaxTokens == 3

----------------------------------------------------------------------------
(* Python string operations on character sequences *)

\* str.startswith
StartsWith(s, pre) == Len(s) >= Len(pre) /\ SubSeq(s, 1, Len(pre)) = pre

\* str.endswith
EndsWith(s, suf) ==
    Len(s) >= Len(suf) /\ SubSeq(s, Len(s) - Len(suf) + 1, Len(s)) = suf

\* c in s
Contains(s, c) == \E k \in 1..Len(s) : s[k] = c

\* str.find(c, from): the first 1-based index >= from holding c, 0 when there is none
Find(s, c, from) ==
    LET I == {k \in from..Len(s) : s[k] = c}
    IN  IF I = {} THEN 0 ELSE CHOOSE k \in I : \A j \in I : k <= j

\* str.rfind(c): the last 1-based index holding c, 0 when there is none
RFind(s, c) ==
    LET I == {k \in 1..Len(s) : s[k] = c}
    IN  IF I = {} THEN 0 ELSE CHOOSE k \in I : \A j \in I : k >= j

\* s.split(c, 1)[0]
BeforeFirst(s, c) ==
    LET i == Find(s, c, 1) IN IF i = 0 THEN s ELSE SubSeq(s, 1, i - 1)

\* s.split(c, 1)[1], empty when c is not in s
AfterFirst(s, c) ==
    LET i == Find(s, c, 1) IN IF i = 0 THEN <<>> ELSE SubSeq(s, i + 1, Len(s))

\* s.lstrip(c)
RECURSIVE LStrip(_, _)
LStrip(s, c) == IF s # <<>> /\ Head(s) = c THEN LStrip(Tail(s), c) ELSE s

\* s.split('/') with the empty pieces dropped: filter(None, s.split('/'))
RECURSIVE Words(_)
Words(s) ==
    IF s = <<>> THEN <<>>
    ELSE LET i == Find(s, "/", 1)
         IN  IF i = 0 THEN <<s>>
             ELSE IF i = 1 THEN Words(Tail(s))
             ELSE <<SubSeq(s, 1, i - 1)>> \o Words(SubSeq(s, i + 1, Len(s)))

----------------------------------------------------------------------------
(* urllib.parse, as do_GET and the delegate use it *)

LowerLetters == <<"a", "b", "c", "d", "e", "f", "g", "h", "i", "j", "k", "l", "m", "n", "o", "p", "q", "r", "s", "t", "u", "v", "w", "x", "y", "z">>

UpperLetters == <<"A", "B", "C", "D", "E", "F", "G", "H", "I", "J", "K", "L", "M", "N", "O", "P", "Q", "R", "S", "T", "U", "V", "W", "X", "Y", "Z">>

Digits == <<"0", "1", "2", "3", "4", "5", "6", "7", "8", "9">>

Range(s) == {s[k] : k \in 1..Len(s)}

\* str.isascii() and str.isalpha() of one character
IsAsciiAlpha(c) == c \in Range(LowerLetters) \cup Range(UpperLetters)

\* urllib.parse.scheme_chars
scheme_chars ==
    Range(LowerLetters) \cup Range(UpperLetters) \cup Range(Digits) \cup {"+", "-", "."}

\* str.lower() of one character, then of a string
LowerChar(c) ==
    IF c \in Range(UpperLetters)
    THEN LowerLetters[CHOOSE k \in 1..Len(UpperLetters) : UpperLetters[k] = c]
    ELSE c

Lower(s) == [k \in 1..Len(s) |-> LowerChar(s[k])]

\* urllib.parse.uses_params
uses_params ==
    { <<>>,
      <<"f", "t", "p">>,
      <<"h", "d", "l">>,
      <<"p", "r", "o", "s", "p", "e", "r", "o">>,
      <<"h", "t", "t", "p">>,
      <<"i", "m", "a", "p">>,
      <<"h", "t", "t", "p", "s">>,
      <<"s", "h", "t", "t", "p">>,
      <<"r", "t", "s", "p">>,
      <<"r", "t", "s", "p", "s">>,
      <<"r", "t", "s", "p", "u">>,
      <<"s", "i", "p">>,
      <<"s", "i", "p", "s">>,
      <<"m", "m", "s">>,
      <<"s", "f", "t", "p">>,
      <<"t", "e", "l">> }

\* _splitnetloc(url, 2): the netloc runs from the third character to the first
\* of '/', '?', '#' after it, or to the end
SplitNetlocDelim(url) ==
    LET I == {k \in 3..Len(url) : url[k] \in {"/", "?", "#"}}
    IN  IF I = {} THEN Len(url) + 1 ELSE CHOOSE k \in I : \A j \in I : k <= j

\* urlsplit(url): ok is FALSE where urlsplit raises ValueError("Invalid IPv6 URL").
\* A request target holds no whitespace (parse_request splits the request line on
\* it), so the leading-whitespace strip and the removal of tab, CR and LF change
\* nothing; a netloc that holds both brackets would go through
\* _check_bracketed_host, which the request alphabet, having no ']', never reaches.
urlsplit(url) ==
    LET i == Find(url, ":", 1)
        hasScheme == /\ i > 1
                     /\ IsAsciiAlpha(url[1])
                     /\ \A k \in 1..(i - 1) : url[k] \in scheme_chars
        scheme == IF hasScheme THEN Lower(SubSeq(url, 1, i - 1)) ELSE <<>>
        u1 == IF hasScheme THEN SubSeq(url, i + 1, Len(url)) ELSE url
        hasNetloc == Len(u1) >= 2 /\ SubSeq(u1, 1, 2) = <<"/", "/">>
        delim == SplitNetlocDelim(u1)
        netloc == IF hasNetloc THEN SubSeq(u1, 3, delim - 1) ELSE <<>>
        u2 == IF hasNetloc THEN SubSeq(u1, delim, Len(u1)) ELSE u1
        invalid == \/ Contains(netloc, "[") /\ ~Contains(netloc, "]")
                   \/ Contains(netloc, "]") /\ ~Contains(netloc, "[")
        fragment == AfterFirst(u2, "#")
        u3 == BeforeFirst(u2, "#")
        query == AfterFirst(u3, "?")
        u4 == BeforeFirst(u3, "?")
    IN  [ok |-> ~invalid, scheme |-> scheme, netloc |-> netloc, path |-> u4,
         query |-> query, fragment |-> fragment]

\* _splitparams(url)[0]: the url up to the first ';' of its last segment
SplitParamsPath(url) ==
    LET i == IF Contains(url, "/")
             THEN Find(url, ";", RFind(url, "/"))
             ELSE Find(url, ";", 1)
    IN  IF i = 0 THEN url ELSE SubSeq(url, 1, i - 1)

\* urlparse(url): urlsplit, then the params split off the path
urlparse(url) ==
    LET r == urlsplit(url)
    IN  IF r.ok /\ r.scheme \in uses_params /\ Contains(r.path, ";")
        THEN [r EXCEPT !.path = SplitParamsPath(r.path)]
        ELSE r

----------------------------------------------------------------------------
(* The document root: a set of regular files, each the sequence of its path
   segments; the directories are the proper prefixes of the files, and the
   root directory always exists. *)

IndexHtml == <<"i", "n", "d", "e", "x", ".", "h", "t", "m", "l">>

IndexHtm == <<"i", "n", "d", "e", "x", ".", "h", "t", "m">>

\* the files a document root of the model may hold: index.html, a plain file p,
\* and assets/!, an asset whose name a request spells with a percent escape
FileUniverse ==
    { <<IndexHtml>>,
      <<<<"p">>>>,
      <<<<"a", "s", "s", "e", "t", "s">>, <<"!">>>> }

FsStates == SUBSET FileUniverse

\* os.path.isfile
IsFile(f, segs) == segs \in f

\* os.path.isdir
IsDir(f, segs) ==
    \/ segs = <<>>
    \/ \E x \in f : Len(x) > Len(segs) /\ SubSeq(x, 1, Len(segs)) = segs

\* the segments of a file name with the '.' segments dropped
RECURSIVE DropDots(_)
DropDots(ws) ==
    IF ws = <<>> THEN <<>>
    ELSE IF Head(ws) = <<".">> THEN DropDots(Tail(ws))
    ELSE <<Head(ws)>> \o DropDots(Tail(ws))

\* os.path.exists(name) for a name relative to the working directory: the name
\* is looked up segment by segment, nothing is decoded, and a name that ends in
\* '/' or in a '.' segment exists only as a directory. No request of the model
\* holds a '..' segment, so the lookup never leaves the document root.
os_path_exists(f, name) ==
    LET ws == Words(name)
        segs == DropDots(ws)
        asDir == \/ EndsWith(name, <<"/">>)
                 \/ (ws # <<>> /\ ws[Len(ws)] = <<".">>)
    IN  IsDir(f, segs) \/ (IsFile(f, segs) /\ ~asDir)

----------------------------------------------------------------------------
(* The static-file delegate: SimpleHTTPRequestHandler.do_GET, reached by
   super().do_GET() *)

HexDigits ==
    Range(Digits) \cup {"a", "b", "c", "d", "e", "f", "A", "B", "C", "D", "E", "F"}

HexLetters == <<"a", "b", "c", "d", "e", "f">>

\* int(c, 16) of one hex digit
HexValue(c) ==
    IF c \in Range(Digits)
    THEN (CHOOSE k \in 1..Len(Digits) : Digits[k] = c) - 1
    ELSE (CHOOSE k \in 1..Len(HexLetters) : HexLetters[k] = LowerChar(c)) + 9

\* the printable ASCII characters, from the space (code 32) to the tilde (code
\* 126); the grave accent (code 96), which a TLA+ string cannot hold, goes by name
PrintableAscii ==
    << " ", "!", "\"", "#", "$", "%", "&", "'", "(", ")", "*", "+", ",", "-", ".", "/",
       "0", "1", "2", "3", "4", "5", "6", "7", "8", "9", ":", ";", "<", "=", ">", "?",
       "@", "A", "B", "C", "D", "E", "F", "G", "H", "I", "J", "K", "L", "M", "N", "O",
       "P", "Q", "R", "S", "T", "U", "V", "W", "X", "Y", "Z", "[", "\\", "]", "^", "_",
       "<grave>", "a", "b", "c", "d", "e", "f", "g", "h", "i", "j", "k", "l", "m", "n", "o",
       "p", "q", "r", "s", "t", "u", "v", "w", "x", "y", "z", "{", "|", "}", "~" >>

\* the character of a two-digit hex code. A code outside printable ASCII stands
\* for a character the model has no name for; no request of the model spells one.
CharOfCode(h, l) ==
    LET code == 16 * HexValue(h) + HexValue(l)
    IN  IF code >= 32 /\ code <= 126 THEN PrintableAscii[code - 31] ELSE "<unprintable>"

\* urllib.parse.unquote: %xx with two hex digits becomes the character of that
\* code, anything else stays as written
RECURSIVE unquote(_)
unquote(s) ==
    IF s = <<>> THEN <<>>
    ELSE IF /\ Head(s) = "%"
            /\ Len(s) >= 3
            /\ s[2] \in HexDigits
            /\ s[3] \in HexDigits
         THEN <<CharOfCode(s[2], s[3])>> \o unquote(SubSeq(s, 4, Len(s)))
         ELSE <<Head(s)>> \o unquote(Tail(s))

\* posixpath.normpath followed by translate_path's loop over the words, which
\* skips '.' and '..': a '..' removes the segment before it, if there is one
RECURSIVE NormWords(_, _)
NormWords(ws, acc) ==
    IF ws = <<>> THEN acc
    ELSE IF Head(ws) = <<".">> THEN NormWords(Tail(ws), acc)
    ELSE IF Head(ws) = <<".", ".">>
         THEN NormWords(Tail(ws), IF acc = <<>> THEN acc ELSE SubSeq(acc, 1, Len(acc) - 1))
    ELSE NormWords(Tail(ws), Append(acc, Head(ws)))

\* translate_path(self.path): the query and the fragment are cut off, the rest is
\* percent-decoded and normalised; segs are the segments below the document root,
\* trailing tells whether the result ends in '/'
translate_path(sp) ==
    LET p1 == BeforeFirst(BeforeFirst(sp, "?"), "#")
    IN  [segs |-> NormWords(Words(unquote(p1)), <<>>),
         trailing |-> EndsWith(p1, <<"/">>)]

\* what the client gets
NoResponse == [status |-> "none", kind |-> "none", file |-> <<>>]

FileResponse(segs) == [status |-> "200", kind |-> "file", file |-> segs]

ListingResponse(segs) == [status |-> "200", kind |-> "listing", file |-> segs]

RedirectResponse == [status |-> "301", kind |-> "redirect", file |-> <<>>]

NotFoundResponse == [status |-> "404", kind |-> "error", file |-> <<>>]

\* send_head: a directory asked for without a trailing '/' is redirected, a
\* directory serves its index.html or index.htm and is listed when it has
\* neither; a file is served; anything else is "File not found"
super_do_GET(sp, f) ==
    LET t == translate_path(sp)
    IN  IF IsDir(f, t.segs)
        THEN IF ~EndsWith(urlsplit(sp).path, <<"/">>) THEN RedirectResponse
             ELSE IF IsFile(f, Append(t.segs, IndexHtml))
                  THEN FileResponse(Append(t.segs, IndexHtml))
             ELSE IF IsFile(f, Append(t.segs, IndexHtm))
                  THEN FileResponse(Append(t.segs, IndexHtm))
             ELSE ListingResponse(t.segs)
        ELSE IF t.trailing THEN NotFoundResponse
        ELSE IF IsFile(f, t.segs) THEN FileResponse(t.segs)
        ELSE NotFoundResponse

----------------------------------------------------------------------------
(* SPAHandler.do_GET *)

AssetPrefix == <<"/", "a", "s", "s", "e", "t", "s", "/">>

StaticExtensions ==
    { <<".", "j", "s">>,
      <<".", "c", "s", "s">>,
      <<".", "p", "n", "g">>,
      <<".", "j", "p", "g">>,
      <<".", "i", "c", "o">>,
      <<".", "s", "v", "g">> }

RootPath == <<"/">>

\* a handler that tests the asset prefix and forgets the extensions
IsAssetPath_PrefixOnly(p) == StartsWith(p, AssetPrefix)

\* line 14: path.startswith('/assets/') or path.endswith((...))
IsAssetPath(p) ==
    StartsWith(p, AssetPrefix) \/ \E e \in StaticExtensions : EndsWith(p, e)

\* a handler that sends every route but '/' to the fallback without looking at
\* the document root
RewriteCheck_Always(p, f) == [rewrite |-> p # RootPath, calls |-> 0]

\* a handler that looks at the document root before it compares the path with '/'
RewriteCheck_Eager(p, f) ==
    [rewrite |-> ~os_path_exists(f, <<".">> \o p) /\ p # RootPath, calls |-> 1]

\* a handler that also looks for the route with ".html" appended before it
\* falls back
RewriteCheck_HtmlToo(p, f) ==
    IF p # RootPath
    THEN IF os_path_exists(f, <<".">> \o p)
         THEN [rewrite |-> FALSE, calls |-> 1]
         ELSE [rewrite |-> ~os_path_exists(f, <<".">> \o p \o <<".", "h", "t", "m", "l">>),
               calls |-> 2]
    ELSE [rewrite |-> FALSE, calls |-> 0]

\* line 18: path != '/' and not os.path.exists('.' + path). The "and" evaluates
\* its right operand only when the left one is true; calls counts the calls of
\* os.path.exists
RewriteCheck(p, f) ==
    IF p # RootPath
    THEN [rewrite |-> ~os_path_exists(f, <<".">> \o p), calls |-> 1]
    ELSE [rewrite |-> FALSE, calls |-> 0]

\* a handler that falls back to the fallback document by its name
RewrittenPath_IndexHtml(p) == <<"/">> \o IndexHtml

\* a handler that falls back to the parent of the missing route
RewrittenPath_Parent(p) ==
    LET q == IF EndsWith(p, <<"/">>)
             THEN SubSeq(p, 1, Len(p) - 1)
             ELSE SubSeq(p, 1, RFind(p, "/") - 1)
    IN  IF q = <<>> THEN RootPath ELSE q

\* line 19: self.path = '/'
RewrittenPath(p) == RootPath

\* a handler whose decision to fall back outlives the request it was made for
do_GET_Sticky(sp, f) ==
    LET parsed == urlparse(sp)
    IN  IF ~parsed.ok
        THEN [raised |-> TRUE, path |-> <<>>, selfPath |-> sp, existsCalls |-> 0,
              response |-> NoResponse]
        ELSE IF IsAssetPath(parsed.path)
        THEN [raised |-> FALSE, path |-> parsed.path, selfPath |-> sp,
              existsCalls |-> 0,
              response |-> super_do_GET(sp, f)]
        ELSE LET c == RewriteCheck(parsed.path, f)
                 sp2 == IF c.rewrite \/ prevRewritten
                        THEN RewrittenPath(parsed.path) ELSE sp
             IN  [raised |-> FALSE, path |-> parsed.path, selfPath |-> sp2,
                  existsCalls |-> c.calls,
                  response |-> super_do_GET(sp2, f)]

\* do_GET on a handler whose self.path is sp, over the document root f. raised
\* tells that urlparse raised and the handler ended without answering.
do_GET(sp, f) ==
    LET parsed == urlparse(sp)
    IN  IF ~parsed.ok
        THEN [raised |-> TRUE, path |-> <<>>, selfPath |-> sp, existsCalls |-> 0,
              response |-> NoResponse]
        ELSE IF IsAssetPath(parsed.path)
        THEN [raised |-> FALSE, path |-> parsed.path, selfPath |-> sp,
              existsCalls |-> 0,
              response |-> super_do_GET(sp, f)]
        ELSE LET c == RewriteCheck(parsed.path, f)
                 sp2 == IF c.rewrite THEN RewrittenPath(parsed.path) ELSE sp
             IN  [raised |-> FALSE, path |-> parsed.path, selfPath |-> sp2,
                  existsCalls |-> c.calls,
                  response |-> super_do_GET(sp2, f)]

----------------------------------------------------------------------------
(* The requests of the model *)

\* the pieces request targets are put together from: the separators of a URL, the
\* asset prefix, a plain name, the six static extensions, a percent escape, and
\* the start of an absolute-form target whose host opens a bracket
RequestTokens ==
    { <<"/">>,
      <<"/", "a", "s", "s", "e", "t", "s", "/">>,
      <<"p">>,
      <<".", "j", "s">>,
      <<".", "c", "s", "s">>,
      <<".", "p", "n", "g">>,
      <<".", "j", "p", "g">>,
      <<".", "i", "c", "o">>,
      <<".", "s", "v", "g">>,
      <<";">>,
      <<"?">>,
      <<"%", "2", "1">>,
      <<"h", "t", "t", "p", ":", "/", "/", "[">> }

RECURSIVE Flatten(_)
Flatten(ts) == IF ts = <<>> THEN <<>> ELSE Head(ts) \o Flatten(Tail(ts))

\* every request target of one to MaxTokens tokens
Targets ==
    UNION { {Flatten(ts) : ts \in [1..n -> RequestTokens]} : n \in 1..MaxTokens }

----------------------------------------------------------------------------
(* The server: TCPServer.serve_forever with SPAHandler as the handler class *)

\* BaseHTTPRequestHandler.parse_request: self.path is the request target, with a
\* leading run of slashes reduced to one
parse_request_path(t) ==
    IF StartsWith(t, <<"/", "/">>) THEN <<"/">> \o LStrip(t, "/") ELSE t

Init ==
    /\ fs \in FsStates
    /\ pc = "idle"
    /\ request = <<>>
    /\ selfPath = <<>>
    /\ path = <<>>
    /\ existsCalls = 0
    /\ raised = FALSE
    /\ response = NoResponse
    /\ prevRewritten = FALSE

\* a connection is accepted, a handler is constructed for it and its request
\* line is parsed
ReceiveRequest ==
    /\ pc = "idle"
    /\ \E t \in Targets :
           /\ request' = t
           /\ selfPath' = parse_request_path(t)
    /\ pc' = "received"
    /\ UNCHANGED <<fs, path, existsCalls, raised, response, prevRewritten>>

\* the handler's do_GET runs to its end: either the response is sent, or
\* urlparse raised, the exception left the handler and handle_error logged it
DoGET ==
    /\ pc = "received"
    /\ \E r \in {do_GET(selfPath, fs)} :
           /\ selfPath' = r.selfPath
           /\ path' = r.path
           /\ existsCalls' = r.existsCalls
           /\ raised' = r.raised
           /\ response' = r.response
    /\ pc' = "done"
    /\ UNCHANGED <<fs, request, prevRewritten>>

\* the connection is shut down, the handler is dropped and the server loop
\* waits for the next connection
ShutdownRequest ==
    /\ pc = "done"
    /\ pc' = "idle"
    /\ prevRewritten' = (selfPath # parse_request_path(request))
    /\ request' = <<>>
    /\ selfPath' = <<>>
    /\ path' = <<>>
    /\ existsCalls' = 0
    /\ raised' = FALSE
    /\ response' = NoResponse
    /\ UNCHANGED fs

Next ==
    \/ ReceiveRequest
    \/ DoGET
    \/ ShutdownRequest

Spec == Init /\ [][Next]_vars

----------------------------------------------------------------------------
(* The properties of the routing decision *)

\* self.path as do_GET found it
ReqPath == parse_request_path(request)

\* do_GET has ended by handing the request to the delegate
Delegated == pc = "done" /\ ~raised

\* the path component of what the delegate was handed
EffectivePath == urlparse(selfPath).path

\* the asset rule in the specification's words: the asset prefix, or one of the
\* six static extensions
AssetRule(p) ==
    \/ StartsWith(p, <<"/", "a", "s", "s", "e", "t", "s", "/">>)
    \/ \E e \in { <<".", "j", "s">>, <<".", "c", "s", "s">>, <<".", "p", "n", "g">>, <<".", "j", "p", "g">>, <<".", "i", "c", "o">>, <<".", "s", "v", "g">> } : EndsWith(p, e)

\* a file exists at path p relative to the document root
FileExistsAt(p) == os_path_exists(fs, <<".">> \o p)

FallbackExists == <<IndexHtml>> \in fs

\* C1: a request whose path matches the asset rule reaches the delegate with its
\* self.path untouched, whatever the document root holds
C1_AssetPathUnmodified ==
    (Delegated /\ AssetRule(path)) => (selfPath = ReqPath /\ EffectivePath = path)

\* an asset that is absent, with the fallback document present, answered 404
\* and not rewritten
C1_Witness ==
    /\ Delegated
    /\ AssetRule(path)
    /\ StartsWith(path, <<"/">>)
    /\ FallbackExists
    /\ ~FileExistsAt(path)
    /\ selfPath = ReqPath
    /\ response = NotFoundResponse

\* C2: a request that is no asset, is not '/' and names no existing file reaches
\* the delegate with self.path equal to '/'
C2_MissingRouteToRoot ==
    (Delegated /\ ~AssetRule(path) /\ path # <<"/">> /\ ~FileExistsAt(path))
        => (selfPath = <<"/">> /\ EffectivePath = <<"/">>)

C2_Witness ==
    /\ Delegated
    /\ ~AssetRule(path)
    /\ StartsWith(path, <<"/">>)
    /\ path # <<"/">>
    /\ ~FileExistsAt(path)
    /\ ReqPath # <<"/">>
    /\ selfPath = <<"/">>

\* C3: a request that is no asset and names an existing file reaches the delegate
\* with its self.path untouched
C3_ExistingRouteKept ==
    (Delegated /\ ~AssetRule(path) /\ FileExistsAt(path))
        => (selfPath = ReqPath /\ EffectivePath = path)

C3_Witness ==
    /\ Delegated
    /\ ~AssetRule(path)
    /\ path # <<"/">>
    /\ FileExistsAt(path)
    /\ selfPath = ReqPath
    /\ response = FileResponse(<<<<"p">>>>)

\* C4: a request for '/' reaches the delegate with its self.path untouched and
\* without a call of os.path.exists
C4_RootServedUnchecked ==
    (Delegated /\ path = <<"/">>)
        => (existsCalls = 0 /\ selfPath = ReqPath /\ EffectivePath = <<"/">>)

C4_Witness ==
    /\ Delegated
    /\ request = <<"/">>
    /\ selfPath = <<"/">>
    /\ existsCalls = 0

\* C5: with the fallback document missing, a request that reaches the delegate
\* as '/' is answered "not found"
C5_MissingFallbackNotFound ==
    (Delegated /\ ~FallbackExists /\ selfPath = <<"/">>) => response.status = "404"

\* C6: with the fallback document present, no request that is no asset is
\* answered "not found" (stated for the targets that start with '/')
C6_NonAssetNeverNotFound ==
    (Delegated /\ ~AssetRule(path) /\ FallbackExists /\ StartsWith(ReqPath, <<"/">>))
        => response.status # "404"

\* C7: a request whose target cannot be parsed is answered with a client-error
\* status
ClientErrorStatuses == {"400", "404"}

C7_MalformedRejected ==
    (pc = "done" /\ ~urlparse(ReqPath).ok) => response.status \in ClientErrorStatuses

\* C8: the routing decision applied to the output of a rewrite gives that output
\* again, and that output is '/'
C8_RewriteIdempotent ==
    (Delegated /\ selfPath # ReqPath)
        => LET again == do_GET(selfPath, fs)
           IN  ~again.raised /\ again.selfPath = selfPath /\ selfPath = <<"/">>

C8_Witness ==
    /\ Delegated
    /\ selfPath # ReqPath
    /\ selfPath = <<"/">>
    /\ do_GET(selfPath, fs).selfPath = <<"/">>

\* C9 as stated: every request that is no asset has os.path.exists called
\* exactly once
C9_ExistsOncePerNonAsset ==
    (Delegated /\ ~AssetRule(path)) => existsCalls = 1

\* C9 amended: every request that is no asset and whose path is not '/' has
\* os.path.exists called exactly once
C9_ExistsOncePerNonRootRoute ==
    (Delegated /\ ~AssetRule(path) /\ path # <<"/">>) => existsCalls = 1

C9_Witness ==
    /\ Delegated
    /\ ~AssetRule(path)
    /\ StartsWith(path, <<"/">>)
    /\ path # <<"/">>
    /\ FileExistsAt(path)
    /\ existsCalls = 1

\* the routing decision as a function of the request's own self.path and the
\* document root
RoutingDecision(sp, f) ==
    LET p == urlparse(sp).path
    IN  IF AssetRule(p) THEN sp
        ELSE IF p # <<"/">> /\ ~os_path_exists(f, <<".">> \o p) THEN <<"/">>
        ELSE sp

\* C10: what a request reaches the delegate with is decided by its own self.path
\* and the document root alone, whatever the requests before it were
C10_RequestsIndependent ==
    Delegated => selfPath = RoutingDecision(ReqPath, fs)

\* a request that follows a rewritten one and is itself not rewritten
C10_Witness ==
    /\ Delegated
    /\ prevRewritten
    /\ StartsWith(path, <<"/">>)
    /\ path # <<"/">>
    /\ selfPath = ReqPath

====
